---- MODULE Spec2Model ----
(***************************************************************************)
(* A model of py-jpeg (src/jpeg.py): the marker tokenizer and dispatcher   *)
(* of class Jpeg, its segment decoders, and the two-level Huffman lookup   *)
(* builder of class JpegHuffman.                                           *)
(*                                                                         *)
(* Bytes are the naturals 0..255, the buffer is a sequence of bytes, and   *)
(* buffer offsets are 0-based as in the source (byte i is buf[i + 1]).     *)
(* Python's None is the integer None (no field of the program holds a      *)
(* negative number), and an absent Huffman description is the empty tuple. *)
(* Python's False in quantization_high_precision is the integer 0, which   *)
(* it equals in Python; an absent key of trackers is the empty list.       *)
(* An exception that is not one of the program's five classes keeps its    *)
(* Python name ("IndexError", "struct.error", ...).                        *)
(***************************************************************************)
EXTENDS Integers, Sequences, FiniteSets, TLC

VARIABLES
    buf, index, pc, marker, err, trackers,
    is_jfif, jfif_version, density_unit, x_density, y_density,
    quantization_tables, quantization_high_precision,
    encoding_type, sample_precision, image_height, image_width, components,
    huffman_data, huffman_dc, huffman_ac,
    h_pc, h_counts, h_given, h_values, h_table, h_query, h_found

parse_vars == <<buf, index, pc, marker, err, trackers>>
app0_vars == <<is_jfif, jfif_version, density_unit, x_density, y_density>>
dqt_vars == <<quantization_tables, quantization_high_precision>>
sof_vars == <<encoding_type, sample_precision, image_height, image_width, components>>
dht_vars == <<huffman_data>>
sos_vars == <<huffman_dc, huffman_ac>>
doc_vars == <<app0_vars, dqt_vars, sof_vars, dht_vars, sos_vars>>
huff_vars == <<h_pc, h_counts, h_given, h_values, h_table, h_query, h_found>>
vars == <<parse_vars, doc_vars, huff_vars>>

(***************************************************************************)
(* Bounds of the model.                                                    *)
(***************************************************************************)
\* how many accepted segments precede the last segment of a generated buffer
MaxSegs == 2
\* how many bytes may be missing from the end of a generated buffer
MaxCut == 1
\* the largest count a generated Huffman description adds at one code length
MaxCount == 3

(***************************************************************************)
(* Program constants.                                                      *)
(***************************************************************************)
None == -1
MAX_QUANTIZATION_TABLES == 4
MAX_HUFFMAN_TABLES == 4
MAX_CODE == 255
INTERESTING_LEN == 14
MAX_SYMBOL_LENGTH == 16
MAX_NUM_SYMBOLS == 256

NoDescription == <<>>

markers ==
    (192 :> "SOF0") @@ (193 :> "SOF1") @@ (194 :> "SOF2") @@ (195 :> "SOF3") @@
    (196 :> "DHT") @@
    (197 :> "SOF5") @@ (198 :> "SOF6") @@ (199 :> "SOF7") @@ (200 :> "SOF_JPEG") @@
    (201 :> "SOF9") @@ (202 :> "SOF10") @@ (203 :> "SOF11") @@
    (204 :> "DAC") @@
    (205 :> "SOF13") @@ (206 :> "SOF14") @@ (207 :> "SOF15") @@
    (216 :> "SOI") @@ (217 :> "EOI") @@ (218 :> "SOS") @@ (219 :> "DQT") @@
    (224 :> "APP0") @@ (225 :> "APP1") @@ (226 :> "APP2") @@ (227 :> "APP3") @@
    (228 :> "APP4") @@ (229 :> "APP5") @@ (230 :> "APP6") @@ (231 :> "APP7") @@
    (232 :> "APP8") @@ (233 :> "APP9") @@ (234 :> "APP10") @@ (235 :> "APP11") @@
    (236 :> "APP12") @@ (237 :> "APP13") @@ (238 :> "APP14") @@ (239 :> "APP15")

MarkerKinds == {markers[c] : c \in DOMAIN markers}

\* the handlers registered at class-definition time, by the name of the function
marker_handlers ==
    [m \in {"APP1", "APP2", "APP3", "APP4", "APP5", "APP6", "APP7", "APP8", "APP9",
            "APP10", "APP11", "APP12", "APP13", "APP15"}
        |-> "handle_uninteresting_variable_length_header"] @@
    ("SOI" :> "handle_soi") @@ ("APP0" :> "handle_app0") @@ ("DQT" :> "handle_dqt") @@
    [m \in {"SOF0", "SOF1", "SOF2", "SOF3", "SOF5", "SOF6", "SOF7", "SOF9", "SOF10",
            "SOF11", "SOF13", "SOF14", "SOF15"} |-> "handle_sof"] @@
    ("DHT" :> "handle_dht") @@ ("SOS" :> "handle_sos") @@ ("EOI" :> "handle_eoi")

encoding_types == {"sequential", "progressive", "arithmetic_code", "lossless", "differential"}

\* the keyword arguments each SOF handler passes to handle_sof
sof_kwargs ==
    ("SOF0" :> {}) @@ ("SOF1" :> {"sequential"}) @@ ("SOF2" :> {"progressive"}) @@
    ("SOF3" :> {"lossless"}) @@
    ("SOF5" :> {"sequential", "differential"}) @@
    ("SOF6" :> {"progressive", "differential"}) @@
    ("SOF7" :> {"lossless", "differential"}) @@
    ("SOF9" :> {"sequential", "arithmetic"}) @@
    ("SOF10" :> {"progressive", "arithmetic"}) @@
    ("SOF11" :> {"progressive", "differential"}) @@
    ("SOF13" :> {"sequential", "differential", "arithmetic"}) @@
    ("SOF14" :> {"progressive", "differential", "arithmetic"}) @@
    ("SOF15" :> {"lossless", "differential", "arithmetic"})

zigzag_natural8_m ==
    <<0, 1, 8, 16, 9, 2, 3, 10,
      17, 24, 32, 25, 18, 11, 4, 5,
      12, 19, 26, 33, 40, 48, 41, 34,
      27, 20, 13, 6, 14, 14, 21, 28,
      35, 42, 49, 56, 57, 50, 43, 36,
      29, 22, 15, 23, 30, 37, 44, 51,
      58, 59, 52, 45, 38, 31, 39, 46,
      53, 60, 61, 54, 47, 55, 62, 63>>

\* zigzag_natural[8]
zigzag_natural8 ==
    <<0, 1, 8, 16, 9, 2, 3, 10,
      17, 24, 32, 25, 18, 11, 4, 5,
      12, 19, 26, 33, 40, 48, 41, 34,
      27, 20, 13, 6, 7, 14, 21, 28,
      35, 42, 49, 56, 57, 50, 43, 36,
      29, 22, 15, 23, 30, 37, 44, 51,
      58, 59, 52, 45, 38, 31, 39, 46,
      53, 60, 61, 54, 47, 55, 62, 63>>

\* the block dimensions zigzag_natural has a table for
zigzag_dims == 2..8

TypedErrors ==
    {"NotJpegFileError", "MarkerNotRecognizedError", "MarkerNotHandledError",
     "BadFieldError", "BadHuffmanTreeError"}

(***************************************************************************)
(* Reading the buffer.                                                     *)
(***************************************************************************)
\* self._buf[i] exists (otherwise indexing raises IndexError)
HasByte(i) == i >= 0 /\ i < Len(buf)
ByteAt(i) == buf[i + 1]
\* self._buf[i:i+2] holds two bytes (otherwise struct.unpack raises struct.error)
HasWord(i) == i >= 0 /\ i + 2 <= Len(buf)
\* struct.unpack('>H', self._buf[i:i+2])[0]
WordAt(i) == buf[i + 1] * 256 + buf[i + 2]
\* self._buf[i:i+n], which is shorter when the buffer ends first
Slice(i, n) == SubSeq(buf, i + 1, IF i + n <= Len(buf) THEN i + n ELSE Len(buf))

(***************************************************************************)
(* JpegHuffman: the lookup builder.  A built table is [high, lows]: high   *)
(* maps a byte to the tuple (val, length); an entry (k, -1) stands for the *)
(* tuple (low, -1) that refers to the k-th low dictionary created, lows[k].*)
(***************************************************************************)
Min(a, b) == IF a < b THEN a ELSE b

\* the tuple stored for a code: (val, length)
code_entry(val, length) == <<val, length>>

next_interval_m(interval) == interval

\* interval >>= 1
next_interval(interval) == interval \div 2

\* (count * interval) + code > MAX_CODE
high_overflows(count, interval, code) == (count * interval) + code > MAX_CODE

\* (count * interval) + code > (((MAX_CODE + 1) * num_lows) - 1)
low_overflows(count, interval, code, num_lows) ==
    (count * interval) + code > (((MAX_CODE + 1) * num_lows) - 1)

\* for count in counts_high: ... ; values.pop(0) on an empty list raises IndexError
RECURSIVE high_loop(_, _, _, _, _, _)
high_loop(counts_high, values, code, interval, length, high) ==
    IF counts_high = <<>>
    THEN [err |-> "none", values |-> values, code |-> code, length |-> length, high |-> high]
    ELSE
        LET count == Head(counts_high)
            n == Min(count, Len(values))
            placed == [j \in code..(code + n * interval - 1) |->
                          code_entry(values[1 + ((j - code) \div interval)], length)]
        IN  IF high_overflows(count, interval, code)
            THEN [err |-> "BadHuffmanTreeError", values |-> values, code |-> code,
                  length |-> length, high |-> high]
            ELSE IF n < count
            THEN [err |-> "IndexError", values |-> <<>>, code |-> code + n * interval,
                  length |-> length, high |-> placed @@ high]
            ELSE high_loop(Tail(counts_high), SubSeq(values, count + 1, Len(values)),
                           code + count * interval, next_interval(interval), length + 1,
                           placed @@ high)

\* for i in range(count): the body of the low loop; st.popped counts lows.pop(0)
RECURSIVE place_low(_, _, _, _)
place_low(todo, interval, length, st) ==
    IF todo = 0 THEN st
    ELSE IF st.popped >= Len(st.lows) THEN [st EXCEPT !.err = "IndexError"]
    ELSE IF st.values = <<>> THEN [st EXCEPT !.err = "IndexError"]
    ELSE
        LET cur == st.popped + 1
            val == Head(st.values)
            placed == [j \in st.code..(st.code + interval - 1) |-> code_entry(val, length)]
            code2 == st.code + interval
            filled == code2 = MAX_CODE + 1
        IN  place_low(todo - 1, interval, length,
                [st EXCEPT !.lows[cur] = placed @@ @,
                           !.values = Tail(@),
                           !.code = IF filled THEN 0 ELSE code2,
                           !.popped = IF filled THEN @ + 1 ELSE @])

\* for count in counts_low: ...
RECURSIVE low_loop(_, _, _, _)
low_loop(counts_low, interval, length, st) ==
    IF counts_low = <<>> THEN st
    ELSE IF low_overflows(Head(counts_low), interval, st.code, Len(st.lows))
    THEN [st EXCEPT !.err = "BadHuffmanTreeError"]
    ELSE
        LET st2 == place_low(Head(counts_low), interval, length, st)
        IN  IF st2.err /= "none" THEN st2
            ELSE low_loop(Tail(counts_low), next_interval(interval), length + 1, st2)

\* JpegHuffman.build_lookups: [err, high, lows, values], values being what is left of
\* the caller's list, which values.pop(0) consumes in place
build_lookups(counts, values) ==
    LET h == high_loop(SubSeq(counts, 1, Min(8, Len(counts))), values, 0, 128, 1, <<>>)
    IN  IF h.err /= "none"
        THEN [err |-> h.err, high |-> h.high, lows |-> <<>>, values |-> h.values]
        ELSE IF h.code = MAX_CODE + 1
        THEN [err |-> "none", high |-> h.high, lows |-> <<>>, values |-> h.values]
        ELSE
            LET escapes == [i \in h.code..MAX_CODE |-> <<i - h.code + 1, -1>>]
                st0 == [err |-> "none", values |-> h.values, code |-> 0, popped |-> 0,
                        lows |-> [k \in 1..(MAX_CODE + 1 - h.code) |-> <<>>]]
                l == low_loop(SubSeq(counts, 9, Len(counts)), 128, h.length, st0)
            IN  [err |-> l.err, high |-> escapes @@ h.high, lows |-> l.lows,
                 values |-> l.values]

\* JpegHuffman.lookup: [err, val, len]; a missing dictionary key raises KeyError
lookup(table, full_2bytes) ==
    LET high_byte == (full_2bytes \div 256) % 256
        low_byte == full_2bytes % 256
        missing == [err |-> "KeyError", val |-> None, len |-> None]
    IN  IF high_byte \notin DOMAIN table.high THEN missing
        ELSE LET e == table.high[high_byte]
             IN  IF e[2] >= 0 THEN [err |-> "none", val |-> e[1], len |-> e[2]]
                 ELSE IF low_byte \notin DOMAIN table.lows[e[1]] THEN missing
                 ELSE [err |-> "none", val |-> table.lows[e[1]][low_byte][1],
                       len |-> table.lows[e[1]][low_byte][2]]

(***************************************************************************)
(* Jpeg: the tokenizer and the segment decoders.  Each decoder is the      *)
(* record of what it leaves behind: err ("none" when it returns) and the   *)
(* fields it assigns, assigned up to the statement that raised.            *)
(***************************************************************************)
JFIF_IDENT == <<74, 70, 73, 70, 0>>

advance_m(i) == i + 1

\* self._index += 2
advance(i) == i + 2

\* Jpeg.get_marker
get_marker ==
    LET cur == [err |-> "none", marker |-> marker, index |-> index]
    IN  IF ~HasByte(index) THEN [cur EXCEPT !.err = "IndexError"]
        ELSE IF ByteAt(index) /= 255 THEN [cur EXCEPT !.err = "MarkerNotRecognizedError"]
        ELSE IF ~HasByte(index + 1) THEN [cur EXCEPT !.err = "IndexError"]
        ELSE IF ByteAt(index + 1) \notin DOMAIN markers
        THEN [cur EXCEPT !.err = "MarkerNotRecognizedError"]
        ELSE [cur EXCEPT !.marker = markers[ByteAt(index + 1)], !.index = advance(index)]

skip_to_m(i, length) == i + length - 1

\* index += length; self._index = index
skip_to(i, length) == i + length

\* Jpeg.handle_uninteresting_variable_length_header
handle_uninteresting_variable_length_header ==
    IF ~HasWord(index) THEN [err |-> "struct.error", index |-> index]
    ELSE [err |-> "none", index |-> skip_to(index, WordAt(index))]

app0_thumbnail_size_m(thumbnail_x, thumbnail_y) == thumbnail_x * thumbnail_y

\* thumbnail_size = 3 * thumbnail_x * thumbnail_y
app0_thumbnail_size(thumbnail_x, thumbnail_y) == 3 * thumbnail_x * thumbnail_y

\* Jpeg.handle_app0
handle_app0 ==
    LET cur == [err |-> "none", index |-> index, is_jfif |-> is_jfif,
                jfif_version |-> jfif_version, density_unit |-> density_unit,
                x_density |-> x_density, y_density |-> y_density]
        length == WordAt(index)
        interesting == IF length - 2 > INTERESTING_LEN THEN INTERESTING_LEN ELSE length - 2
        c1 == [cur EXCEPT !.is_jfif = TRUE]
        c2 == [c1 EXCEPT !.jfif_version = <<ByteAt(index + 7), ByteAt(index + 8)>>]
        c3 == [c2 EXCEPT !.density_unit = ByteAt(index + 9),
                         !.x_density = WordAt(index + 10),
                         !.y_density = WordAt(index + 12)]
        thumbnail_size == app0_thumbnail_size(ByteAt(index + 14), ByteAt(index + 15))
    IN  IF ~HasWord(index) THEN [cur EXCEPT !.err = "struct.error"]
        ELSE IF length - 2 < INTERESTING_LEN THEN [cur EXCEPT !.err = "BadFieldError"]
        ELSE IF Slice(index + 2, 5) /= JFIF_IDENT THEN [cur EXCEPT !.err = "NotJpegFileError"]
        ELSE IF ~HasByte(index + 7) \/ ~HasByte(index + 8) THEN [c1 EXCEPT !.err = "IndexError"]
        ELSE IF ~HasByte(index + 9) THEN [c2 EXCEPT !.err = "IndexError"]
        ELSE IF ~HasWord(index + 10) \/ ~HasWord(index + 12)
        THEN [c2 EXCEPT !.err = "struct.error"]
        ELSE IF ~HasByte(index + 14) \/ ~HasByte(index + 15) THEN [c3 EXCEPT !.err = "IndexError"]
        ELSE IF length - (interesting + 2) /= thumbnail_size
        THEN [c3 EXCEPT !.err = "BadFieldError"]
        ELSE [c3 EXCEPT !.index = index + 16 + thumbnail_size]

\* int(math.sqrt(n)) for n >= 0
Isqrt(n) == CHOOSE r \in 0..256 : r * r <= n /\ n < (r + 1) * (r + 1)

dqt_num_entries_m(length, quant_precision) ==
    IF quant_precision /= 0 THEN (length - 2) \div 2 ELSE length - 2

\* num_entries = length - 3, and num_entries /= 2 under the precision flag
dqt_num_entries(length, quant_precision) ==
    IF quant_precision /= 0 THEN (length - 3) \div 2 ELSE length - 3

dqt_scatter_m(zigzag, num_entries, first, width) ==
    [p \in 0..(num_entries - 1) |->
        IF width = 2 THEN WordAt(first + width * p) ELSE ByteAt(first + width * p)]

\* table = [1] * num_entries; for i in range(num_entries): table[zigzag_natural[i]] = entry
dqt_scatter(zigzag, num_entries, first, width) ==
    [p \in 0..(num_entries - 1) |->
        LET from == {i \in 0..(num_entries - 1) : zigzag[i + 1] = p}
            last == CHOOSE i \in from : \A k \in from : k <= i
            at == first + width * last
        IN  IF from = {} THEN 1
            ELSE IF width = 2 THEN WordAt(at) ELSE ByteAt(at)]

\* Jpeg.handle_dqt
handle_dqt ==
    LET cur == [err |-> "none", index |-> index,
                quantization_tables |-> quantization_tables,
                quantization_high_precision |-> quantization_high_precision]
        length == WordAt(index)
        quant_num == ByteAt(index + 2) % 16
        quant_precision == ByteAt(index + 2) \div 16
        num_entries == dqt_num_entries(length, quant_precision)
        dqt_dim == Isqrt(num_entries)
        width == IF quant_precision /= 0 THEN 2 ELSE 1
        table == dqt_scatter(zigzag_natural8, num_entries, index + 3, width)
    IN  IF ~HasWord(index) THEN [cur EXCEPT !.err = "struct.error"]
        ELSE IF ~HasByte(index + 2) THEN [cur EXCEPT !.err = "IndexError"]
        ELSE IF quant_num >= MAX_QUANTIZATION_TABLES THEN [cur EXCEPT !.err = "BadFieldError"]
        ELSE IF num_entries < 0 THEN [cur EXCEPT !.err = "ValueError"]
        ELSE IF dqt_dim * dqt_dim /= num_entries THEN [cur EXCEPT !.err = "BadFieldError"]
        ELSE IF dqt_dim \notin zigzag_dims THEN [cur EXCEPT !.err = "BadFieldError"]
        ELSE IF dqt_dim /= 8 THEN [cur EXCEPT !.err = "AssertionError"]
        ELSE IF index + 3 + width * num_entries > Len(buf)
        THEN [cur EXCEPT !.err = "struct.error"]
        ELSE [cur EXCEPT !.quantization_tables[quant_num] = table,
                         !.quantization_high_precision[quant_num] = quant_precision,
                         !.index = index + 3 + width * num_entries]

\* for i in range(num_components): ... self.components.append(d)
RECURSIVE sof_components(_, _, _)
sof_components(todo, at, st) ==
    IF todo = 0 THEN [st EXCEPT !.index = at]
    ELSE IF ~HasByte(at) \/ ~HasByte(at + 1) \/ ~HasByte(at + 2)
    THEN [st EXCEPT !.err = "IndexError"]
    ELSE IF ByteAt(at + 2) >= MAX_QUANTIZATION_TABLES THEN [st EXCEPT !.err = "BadFieldError"]
    ELSE sof_components(todo - 1, at + 3,
            [st EXCEPT !.components = Append(@,
                [id |-> ByteAt(at), h_factor |-> (ByteAt(at + 1) \div 16) % 16,
                 v_factor |-> ByteAt(at + 1) % 16, quant_tbl_index |-> ByteAt(at + 2)])])

sof_length_mismatch_m(length, num_components) == (length - 8) /= num_components

\* (length - 8) != (3 * num_components)
sof_length_mismatch(length, num_components) == (length - 8) /= (3 * num_components)

\* Jpeg.handle_sof(**kwargs)
handle_sof(kwargs) ==
    LET cur == [err |-> "none", index |-> index,
                encoding_type |-> [t \in encoding_types |-> t \in kwargs],
                sample_precision |-> sample_precision, image_height |-> image_height,
                image_width |-> image_width, components |-> components]
        length == WordAt(index)
        c1 == [cur EXCEPT !.sample_precision = ByteAt(index + 2)]
        c2 == [c1 EXCEPT !.image_height = WordAt(index + 3)]
        c3 == [c2 EXCEPT !.image_width = WordAt(index + 5)]
        num_components == ByteAt(index + 7)
    IN  IF ~HasWord(index) THEN [cur EXCEPT !.err = "struct.error"]
        ELSE IF ~HasByte(index + 2) THEN [cur EXCEPT !.err = "IndexError"]
        ELSE IF ~HasWord(index + 3) THEN [c1 EXCEPT !.err = "struct.error"]
        ELSE IF ~HasWord(index + 5) THEN [c2 EXCEPT !.err = "struct.error"]
        ELSE IF ~HasByte(index + 7) THEN [c3 EXCEPT !.err = "IndexError"]
        ELSE IF c3.image_height = 0 \/ c3.image_width = 0 \/ num_components = 0
        THEN [c3 EXCEPT !.err = "BadFieldError"]
        ELSE IF sof_length_mismatch(length, num_components)
        THEN [c3 EXCEPT !.err = "BadFieldError"]
        ELSE sof_components(num_components, index + 8, c3)

\* huffman_index > self.MAX_HUFFMAN_TABLES
dht_index_rejected(huffman_index) == huffman_index > MAX_HUFFMAN_TABLES

\* while index < self._index + length: ... (one table of the segment per turn)
RECURSIVE dht_tables(_, _, _)
dht_tables(at, stop, st) ==
    IF ~(at < stop)
    THEN IF at /= stop THEN [st EXCEPT !.err = "BadFieldError"] ELSE [st EXCEPT !.index = at]
    ELSE IF \E i \in 0..MAX_SYMBOL_LENGTH : ~HasByte(at + i) THEN [st EXCEPT !.err = "IndexError"]
    ELSE
        LET counts == [i \in 1..MAX_SYMBOL_LENGTH |-> ByteAt(at + i)]
            total == LET RECURSIVE sum(_)
                         sum(i) == IF i = 0 THEN 0 ELSE counts[i] + sum(i - 1)
                     IN  sum(MAX_SYMBOL_LENGTH)
            first == at + 1 + MAX_SYMBOL_LENGTH
            values == [i \in 1..total |-> ByteAt(first + i - 1)]
            is_ac == (ByteAt(at) \div 16) % 2
            huffman_index == ByteAt(at) % 16
        IN  IF total > MAX_NUM_SYMBOLS THEN [st EXCEPT !.err = "BadFieldError"]
            ELSE IF total > 0 /\ ~HasByte(first + total - 1) THEN [st EXCEPT !.err = "IndexError"]
            ELSE IF dht_index_rejected(huffman_index) THEN [st EXCEPT !.err = "BadFieldError"]
            ELSE IF huffman_index \notin DOMAIN st.huffman_data
            THEN [st EXCEPT !.err = "IndexError"]
            ELSE dht_tables(first + total, stop,
                    [st EXCEPT !.huffman_data[huffman_index][is_ac] = <<counts, values>>])

\* Jpeg.handle_dht
handle_dht ==
    LET cur == [err |-> "none", index |-> index, huffman_data |-> huffman_data]
    IN  IF ~HasWord(index) THEN [cur EXCEPT !.err = "struct.error"]
        ELSE dht_tables(index + 2, index + WordAt(index), cur)

\* for l in self.huffman_data: dc, then ac, each built by JpegHuffman(cv_tuple), whose
\* values.pop(0) empties the list the stored tuple holds
RECURSIVE sos_build(_, _)
sos_build(todo, st) ==
    IF todo = <<>> THEN st
    ELSE
        LET slot == Head(todo)[1]
            which == Head(todo)[2]
            d == st.huffman_data[slot][which]
            b == build_lookups(d[1], d[2])
            st2 == [st EXCEPT !.huffman_data[slot][which] = <<d[1], b.values>>]
            built == [high |-> b.high, lows |-> b.lows]
        IN  IF d = NoDescription THEN sos_build(Tail(todo), st)
            ELSE IF b.err /= "none" THEN [st2 EXCEPT !.err = b.err]
            ELSE sos_build(Tail(todo),
                    IF which = 0 THEN [st2 EXCEPT !.huffman_dc = Append(@, built)]
                    ELSE [st2 EXCEPT !.huffman_ac = Append(@, built)])

\* what handle_sos does once the tables are built: raise BadFieldError()
sos_outcome == "BadFieldError"

\* Jpeg.handle_sos
handle_sos ==
    LET cur == [err |-> "none", huffman_data |-> huffman_data,
                huffman_dc |-> huffman_dc, huffman_ac |-> huffman_ac]
        order == <<<<0, 0>>, <<0, 1>>, <<1, 0>>, <<1, 1>>, <<2, 0>>, <<2, 1>>, <<3, 0>>, <<3, 1>>>>
        st == sos_build(order, cur)
    IN  IF st.err /= "none" THEN st ELSE [st EXCEPT !.err = sos_outcome]

(***************************************************************************)
(* The buffers the parse is run on: SOI, up to MaxSegs segments the        *)
(* decoders accept, one closing piece, and up to MaxCut bytes cut off the  *)
(* end; and the buffers that do not start with SOI.                        *)
(***************************************************************************)
U16(n) == <<n \div 256, n % 256>>
Segment(code, body) == <<255, code>> \o U16(Len(body) + 2) \o body
Zeros(n) == [i \in 1..n |-> 0]

RECURSIVE Concat(_)
Concat(ss) == IF ss = <<>> THEN <<>> ELSE Head(ss) \o Concat(Tail(ss))

SOI == <<255, 216>>
EOI == <<255, 217>>
SOS == <<255, 218>>
APP0_min == Segment(224, JFIF_IDENT \o <<1, 1, 0, 0, 72, 0, 72, 0, 0>>)
APP0_thumb == Segment(224, JFIF_IDENT \o <<1, 2, 1, 1, 44, 0, 96, 1, 1, 7, 8, 9>>)
APP0_ident == Segment(224, <<74, 70, 88, 88, 0, 1, 1, 0, 0, 72, 0, 72, 0, 0>>)
APP0_short == Segment(224, JFIF_IDENT \o <<1, 1, 0>>)
APP0_size == Segment(224, JFIF_IDENT \o <<1, 1, 0, 0, 72, 0, 72, 0, 0, 5>>)
APP1_skip == Segment(225, <<1, 2>>)
APP15_len(n) == <<255, 239>> \o U16(n)
DQT_8bit == Segment(219, <<0>> \o [i \in 1..64 |-> i])
DQT_16bit == Segment(219, <<17>> \o Concat([i \in 1..64 |-> U16(256 + i)]))
DQT_16bit_odd == Segment(219, <<18>> \o Concat([i \in 1..64 |-> U16(512 + i)]) \o <<255>>)
DQT_again == Segment(219, <<16>> \o Concat([i \in 1..64 |-> U16(1000 + i)]))
DQT_slot4 == Segment(219, <<4>> \o [i \in 1..64 |-> i])
DQT_4x4 == Segment(219, <<1>> \o [i \in 1..16 |-> i])
DQT_9x9 == Segment(219, <<1>> \o [i \in 1..81 |-> i])
DQT_5 == Segment(219, <<1>> \o [i \in 1..5 |-> i])
DQT_len2 == <<255, 219, 0, 2, 0>>
SOF(code, height, width, comps) ==
    Segment(code, <<8>> \o U16(height) \o U16(width) \o <<Len(comps) \div 3>> \o comps)
SOF0_one == SOF(192, 16, 8, <<1, 17, 0>>)
SOF2_two == SOF(194, 300, 200, <<1, 34, 0, 2, 18, 3>>)
SOF9_one == SOF(201, 1, 1, <<7, 33, 1>>)
SOF11_one == SOF(203, 1, 1, <<7, 33, 1>>)
SOF_height0 == SOF(192, 0, 8, <<1, 17, 0>>)
SOF_width0 == SOF(193, 8, 0, <<1, 17, 0>>)
SOF_none == SOF(192, 8, 8, <<>>)
SOF_length == Segment(192, <<8, 0, 8, 0, 8, 2, 1, 17, 0>>)
SOF_quant4 == SOF(192, 8, 8, <<1, 17, 0, 2, 17, 4>>)
\* one table of a DHT segment: the index byte, 16 counts, the symbols
DhtTable(byte, counts, syms) == <<byte>> \o counts \o Zeros(16 - Len(counts)) \o syms
DHT_dc == Segment(196, DhtTable(0, <<1>>, <<5>>))
DHT_two == Segment(196, DhtTable(17, <<0, 1, 2>>, <<3, 4, 5>>)
                         \o DhtTable(1, <<1, 1, 1, 1, 1, 1, 1, 0, 1, 2>>,
                                     <<20, 21, 22, 23, 24, 25, 26, 27, 28, 29>>))
DHT_over == Segment(196, DhtTable(18, <<3>>, <<1, 2, 3>>))
DHT_hop == Segment(196, DhtTable(3, <<1, 1, 1, 1, 1, 1, 1, 0, 3, 3>>,
                                 <<1, 2, 3, 4, 5, 6, 7, 8, 9, 10, 11, 12, 13>>))
DHT_slot4 == Segment(196, DhtTable(4, <<1>>, <<5>>))
DHT_slot5 == Segment(196, DhtTable(21, <<1>>, <<5>>))
DHT_length == <<255, 196, 0, 21>> \o DhtTable(2, <<1>>, <<5>>) \o EOI
DHT_total == Segment(196, DhtTable(0, <<255, 2>>, <<>>))

GoodLib == {APP0_min, DQT_8bit, SOF0_one, DHT_dc}

LastLib ==
    {<<>>, EOI, SOS, SOS \o EOI, <<255, 238>>, <<255, 204>>, <<255, 200>>,
     <<0>>, <<255, 1>>, <<255, 255>>,
     APP0_ident, APP0_short, APP0_size, APP0_thumb \o EOI,
     APP15_len(0), APP15_len(1), APP15_len(2) \o EOI, APP15_len(64), APP1_skip \o EOI,
     SOI \o EOI,
     DQT_16bit \o EOI, DQT_16bit_odd \o EOI, DQT_again \o EOI, DQT_slot4, DQT_4x4, DQT_9x9, DQT_5, DQT_len2,
     SOF2_two \o EOI, SOF9_one \o EOI, SOF11_one \o EOI,
     SOF_height0, SOF_width0, SOF_none, SOF_length, SOF_quant4,
     DHT_two \o EOI, DHT_two \o SOS, DHT_over \o SOS, DHT_hop \o SOS, DHT_slot4, DHT_slot5, DHT_length, DHT_total}

\* buffers whose first marker is not SOI
NotJpegLib == {<<>>, <<0>>, <<255>>, <<255, 1>>, <<0, 216>>, EOI, APP0_min, <<255, 238>>}

\* SOI, a minimal APP0, one 8x8 8-bit DQT, an SOF0 with one component, a DHT with one
\* DC table holding a single 1-bit code, EOI
EndToEnd == SOI \o APP0_min \o DQT_8bit \o SOF0_one \o DHT_dc \o EOI

CutOff(b, n) == SubSeq(b, 1, IF Len(b) > n THEN Len(b) - n ELSE 0)

Buffers ==
    NotJpegLib \cup {EndToEnd} \cup
    {CutOff(SOI \o Concat(good) \o last, cut) :
        good \in UNION {[1..k -> GoodLib] : k \in 0..MaxSegs},
        last \in LastLib, cut \in 0..MaxCut}

(***************************************************************************)
(* The parse: Jpeg.__init__ and Jpeg.build_from_buf.                       *)
(***************************************************************************)
HuffIdle ==
    /\ h_pc = "idle"
    /\ h_counts = <<>>
    /\ h_given = <<>>
    /\ h_values = <<>>
    /\ h_table = <<>>
    /\ h_query = None
    /\ h_found = <<>>

\* Jpeg.__init__, up to the call of build_from_buf
DocInit ==
    /\ index = 0
    /\ marker = "unset"
    /\ err = "none"
    /\ trackers = [m \in MarkerKinds |-> <<>>]
    /\ is_jfif = FALSE
    /\ jfif_version = <<None, None>>
    /\ density_unit = None
    /\ x_density = None
    /\ y_density = None
    /\ quantization_tables = [s \in 0..(MAX_QUANTIZATION_TABLES - 1) |-> <<>>]
    /\ quantization_high_precision = [s \in 0..(MAX_QUANTIZATION_TABLES - 1) |-> 0]
    /\ encoding_type = <<>>
    /\ sample_precision = 0
    /\ image_height = 0
    /\ image_width = 0
    /\ components = <<>>
    /\ huffman_data = [s \in 0..(MAX_HUFFMAN_TABLES - 1) |-> [w \in 0..1 |-> NoDescription]]
    /\ huffman_dc = <<>>
    /\ huffman_ac = <<>>

Init ==
    /\ buf \in Buffers
    /\ pc = "Start"
    /\ DocInit
    /\ HuffIdle

AfterHandler_m(e) ==
    /\ err' = e
    /\ pc' = IF e /= "none" THEN "Failed" ELSE "InBody"

\* where build_from_buf stands once a handler has ended with e
AfterHandler(e) ==
    /\ err' = e
    /\ pc' = IF e /= "none" THEN "Failed" ELSE IF marker = "EOI" THEN "Done" ELSE "InBody"

\* handle_marker: tracker.append(self._index)
Tracked == [trackers EXCEPT ![marker] = Append(@, index)]

Registered(name) ==
    /\ pc = "Dispatch"
    /\ marker \in DOMAIN marker_handlers
    /\ marker_handlers[marker] = name

\* marker = self.get_marker(), for the first marker and inside the loop
GetMarker ==
    /\ pc \in {"Start", "InBody"}
    /\ LET r == get_marker
       IN  /\ marker' = r.marker
           /\ index' = r.index
           /\ err' = r.err
           /\ pc' = IF r.err /= "none" THEN "Failed"
                    ELSE IF pc = "Start" THEN "First" ELSE "Dispatch"
    /\ UNCHANGED <<buf, trackers, doc_vars, huff_vars>>

first_marker_rejected_m == marker /= "EOI"

\* if marker != 'SOI': raise NotJpegFileError
first_marker_rejected == marker /= "SOI"

CheckSOI ==
    /\ pc = "First"
    /\ IF first_marker_rejected
       THEN pc' = "Failed" /\ err' = "NotJpegFileError"
       ELSE pc' = "Dispatch" /\ err' = err
    /\ UNCHANGED <<buf, index, marker, trackers, doc_vars, huff_vars>>

\* handle_marker: handler is None
HandleUnregistered ==
    /\ pc = "Dispatch"
    /\ marker \notin DOMAIN marker_handlers
    /\ pc' = "Failed"
    /\ err' = "MarkerNotHandledError"
    /\ UNCHANGED <<buf, index, marker, trackers, doc_vars, huff_vars>>

HandleSOI ==
    /\ Registered("handle_soi")
    /\ trackers' = Tracked
    /\ AfterHandler("none")
    /\ UNCHANGED <<buf, index, marker, doc_vars, huff_vars>>

HandleEOI ==
    /\ Registered("handle_eoi")
    /\ trackers' = Tracked
    /\ AfterHandler("none")
    /\ UNCHANGED <<buf, index, marker, doc_vars, huff_vars>>

HandleSkip ==
    /\ Registered("handle_uninteresting_variable_length_header")
    /\ trackers' = Tracked
    /\ LET r == handle_uninteresting_variable_length_header
       IN  index' = r.index /\ AfterHandler(r.err)
    /\ UNCHANGED <<buf, marker, doc_vars, huff_vars>>

HandleAPP0 ==
    /\ Registered("handle_app0")
    /\ trackers' = Tracked
    /\ LET r == handle_app0
       IN  /\ index' = r.index
           /\ is_jfif' = r.is_jfif
           /\ jfif_version' = r.jfif_version
           /\ density_unit' = r.density_unit
           /\ x_density' = r.x_density
           /\ y_density' = r.y_density
           /\ AfterHandler(r.err)
    /\ UNCHANGED <<buf, marker, dqt_vars, sof_vars, dht_vars, sos_vars, huff_vars>>

HandleDQT ==
    /\ Registered("handle_dqt")
    /\ trackers' = Tracked
    /\ LET r == handle_dqt
       IN  /\ index' = r.index
           /\ quantization_tables' = r.quantization_tables
           /\ quantization_high_precision' = r.quantization_high_precision
           /\ AfterHandler(r.err)
    /\ UNCHANGED <<buf, marker, app0_vars, sof_vars, dht_vars, sos_vars, huff_vars>>

HandleSOF ==
    /\ Registered("handle_sof")
    /\ trackers' = Tracked
    /\ LET r == handle_sof(sof_kwargs[marker])
       IN  /\ index' = r.index
           /\ encoding_type' = r.encoding_type
           /\ sample_precision' = r.sample_precision
           /\ image_height' = r.image_height
           /\ image_width' = r.image_width
           /\ components' = r.components
           /\ AfterHandler(r.err)
    /\ UNCHANGED <<buf, marker, app0_vars, dqt_vars, dht_vars, sos_vars, huff_vars>>

HandleDHT ==
    /\ Registered("handle_dht")
    /\ trackers' = Tracked
    /\ LET r == handle_dht
       IN  /\ index' = r.index
           /\ huffman_data' = r.huffman_data
           /\ AfterHandler(r.err)
    /\ UNCHANGED <<buf, marker, app0_vars, dqt_vars, sof_vars, sos_vars, huff_vars>>

HandleSOS ==
    /\ Registered("handle_sos")
    /\ trackers' = Tracked
    /\ LET r == handle_sos
       IN  /\ huffman_data' = r.huffman_data
           /\ huffman_dc' = r.huffman_dc
           /\ huffman_ac' = r.huffman_ac
           /\ AfterHandler(r.err)
    /\ UNCHANGED <<buf, index, marker, app0_vars, dqt_vars, sof_vars, huff_vars>>

Next ==
    \/ GetMarker
    \/ CheckSOI
    \/ HandleUnregistered
    \/ HandleSOI
    \/ HandleEOI
    \/ HandleSkip
    \/ HandleAPP0
    \/ HandleDQT
    \/ HandleSOF
    \/ HandleDHT
    \/ HandleSOS

Spec == Init /\ [][Next]_vars

(***************************************************************************)
(* JpegHuffman on its own: a description (counts, values) with             *)
(* sum(counts) = len(values) is built into a table, which is then looked   *)
(* up.  h_given is the values list as passed, h_values the same list as    *)
(* the builder leaves it.                                                  *)
(***************************************************************************)
RECURSIVE Pow2(_)
Pow2(n) == IF n = 0 THEN 1 ELSE 2 * Pow2(n - 1)

RECURSIVE SumTo(_, _)
SumTo(counts, n) == IF n = 0 THEN 0 ELSE counts[n] + SumTo(counts, n - 1)

\* the canonical code of the first symbol of a length: codes of one length are
\* consecutive, and the next length starts at the next code shifted left by one
RECURSIVE FirstCode(_, _)
FirstCode(counts, len) ==
    IF len = 1 THEN 0 ELSE (FirstCode(counts, len - 1) + counts[len - 1]) * 2

\* the canonical codes of a description: symbol number k (values[k]) has code `code`
\* of `len` bits
CanonCodes(counts) ==
    UNION {{[k |-> SumTo(counts, len - 1) + j + 1, code |-> FirstCode(counts, len) + j,
             len |-> len] : j \in 0..(counts[len] - 1)} : len \in 1..16}

\* the 16-bit pattern of a code, left-justified
Pattern(c) == c.code * Pow2(16 - c.len)

\* the bits below a code of len bits that lookups are tried with: every setting of
\* the bits of the byte the code ends in, with the whole low byte clear, mixed and
\* set for a code that ends in the high byte
DontCare(len) ==
    IF len > 8 THEN 0..(Pow2(16 - len) - 1)
    ELSE {hi * 256 + lo : hi \in 0..(Pow2(8 - len) - 1), lo \in {0, 85, 255}}

Stair(n) == [k \in 1..16 |-> IF k <= n THEN 1 ELSE 0]
Bump(l1, c1, l2, c2) ==
    [k \in 1..16 |-> (IF k = l1 THEN c1 ELSE 0) + (IF k = l2 THEN c2 ELSE 0)]

\* one code of each length up to n, plus up to MaxCount codes at each of two lengths;
\* and 257 codes of length 1
HuffCounts ==
    {[k \in 1..16 |-> Stair(n)[k] + Bump(l1, c1, l2, c2)[k]] :
        n \in 0..8, l1 \in {1, 2, 8, 9, 10}, c1 \in 0..MaxCount, l2 \in 1..16, c2 \in 0..MaxCount}
    \cup {Bump(1, 257, 1, 0)}

\* distinct symbols, so that a table that hands out the wrong one is seen
SymbolsFor(total) == [i \in 1..total |-> (3 * i) % 256]

Queries(counts) ==
    {0, 32768, 65535} \cup
    UNION {{Pattern(c), Pattern(c) + Pow2(16 - c.len) - 1} : c \in CanonCodes(counts)}

HuffInit ==
    /\ buf = <<>>
    /\ pc = "Idle"
    /\ DocInit
    /\ h_pc = "new"
    /\ h_counts \in HuffCounts
    /\ h_given = SymbolsFor(SumTo(h_counts, 16))
    /\ h_values = h_given
    /\ h_table = <<>>
    /\ h_query = None
    /\ h_found = <<>>

\* JpegHuffman.__init__
HBuild ==
    /\ h_pc = "new"
    /\ LET b == build_lookups(h_counts, h_values)
       IN  /\ h_table' = [err |-> b.err, high |-> b.high, lows |-> b.lows]
           /\ h_values' = b.values
           /\ h_pc' = IF b.err = "none" THEN "built" ELSE "failed"
    /\ UNCHANGED <<h_counts, h_given, h_query, h_found, parse_vars, doc_vars>>

\* JpegHuffman.lookup, once on the table just built (a lookup changes nothing, so
\* a second one finds what a first one would)
HLookup ==
    /\ h_pc = "built"
    /\ \E q \in Queries(h_counts) :
        /\ h_query' = q
        /\ h_found' = lookup(h_table, q)
    /\ h_pc' = "looked"
    /\ UNCHANGED <<h_counts, h_given, h_values, h_table, parse_vars, doc_vars>>

HuffNext == HBuild \/ HLookup

HuffSpec == HuffInit /\ [][HuffNext]_vars

(***************************************************************************)
(* Properties.                                                             *)
(***************************************************************************)
\* no handler has been invoked: handle_marker has recorded no offset
NoHandlerRan == \A m \in MarkerKinds : trackers[m] = <<>>

C1_Step ==
    /\ (pc = "First" /\ marker /= "SOI") =>
         /\ pc' = "Failed"
         /\ err' = "NotJpegFileError"
         /\ NoHandlerRan'
         /\ UNCHANGED <<index, doc_vars>>
    /\ (pc = "First" /\ marker = "SOI") =>
         (pc' = "Dispatch" /\ marker' = "SOI" /\ err' = "none")
    /\ (pc = "Dispatch" /\ marker = "SOI" /\ NoHandlerRan) =>
         (pc' = "InBody" /\ trackers'["SOI"] = <<index>>)

\* C1: when the first marker tokenized is a recognized marker other than SOI, the
\* parse fails with NotJpegFileError and no handler has been invoked, the document
\* being as constructed; when it is SOI, the SOI handler is dispatched and the parse
\* enters the marker loop.
C1_FirstMarkerMustBeSOI == [][C1_Step]_vars

\* a buffer whose first marker is recognized and is not SOI has been rejected
C1_Witness ==
    /\ pc = "Failed"
    /\ err = "NotJpegFileError"
    /\ marker \in MarkerKinds \ {"SOI"}
    /\ index = 2
    /\ NoHandlerRan

C2_Step ==
    /\ pc /= "Done"
    /\ (pc = "Dispatch" /\ marker \in DOMAIN marker_handlers) =>
          /\ trackers' = [trackers EXCEPT ![marker] = Append(@, index)]
          /\ pc' = IF err' /= "none" THEN "Failed"
                   ELSE IF marker = "EOI" THEN "Done" ELSE "InBody"
    /\ (pc = "Dispatch" /\ marker = "EOI") => (pc' = "Done" /\ index' = index)
    /\ (pc = "Dispatch" /\ marker \in {"APP14", "DAC", "SOF_JPEG"}) =>
          /\ pc' = "Failed"
          /\ err' = "MarkerNotHandledError"
          /\ UNCHANGED <<index, trackers, doc_vars>>

\* C2: in the marker loop every marker with a registered handler is dispatched to it,
\* whatever its kind; the parse is Done exactly when the handler of an EOI marker has
\* returned, and from Done nothing changes (no byte is read, no handler runs); a
\* marker without a handler, which is one of APP14, DAC and SOF_JPEG, fails the parse
\* with MarkerNotHandledError, no handler having run for it.
C2_DispatchUntilEOI ==
    /\ [](MarkerKinds \ DOMAIN marker_handlers = {"APP14", "DAC", "SOF_JPEG"})
    /\ [](pc = "Done" =>
            /\ marker = "EOI"
            /\ err = "none"
            /\ trackers["EOI"] /= <<>>
            /\ trackers["EOI"][Len(trackers["EOI"])] = index)
    /\ [](pc = "InBody" => ENABLED GetMarker)
    /\ [][C2_Step]_vars

\* a parse has ended at EOI after decoding segments in between
C2_Witness ==
    /\ pc = "Done"
    /\ Len(trackers["EOI"]) = 1
    /\ trackers["DQT"] /= <<>>
    /\ trackers["DHT"] /= <<>>

C3_Step ==
    pc \in {"Start", "InBody"} =>
     /\ (/\ HasByte(index) /\ HasByte(index + 1)
         /\ ByteAt(index) = 255
         /\ ByteAt(index + 1) \in DOMAIN markers) =>
             /\ marker' = markers[ByteAt(index + 1)]
             /\ index' = index + 2
             /\ err' = "none"
             /\ pc' \in {"First", "Dispatch"}
     /\ (\/ (HasByte(index) /\ ByteAt(index) /= 255)
         \/ (/\ HasByte(index) /\ HasByte(index + 1)
             /\ ByteAt(index) = 255
             /\ ByteAt(index + 1) \notin DOMAIN markers)) =>
             /\ err' = "MarkerNotRecognizedError"
             /\ pc' = "Failed"
             /\ UNCHANGED <<index, marker, trackers, doc_vars>>

\* C3: get_marker, on the prefix byte 255 followed by a code of the marker table,
\* returns the marker of that code and moves the cursor on by exactly 2; on a prefix
\* byte that is not 255, or on a code that is not in the table, it fails with
\* MarkerNotRecognizedError and leaves the cursor, the occurrence index and every
\* field of the document as they were.
C3_GetMarker == [][C3_Step]_vars

\* a buffer that starts with the byte 0 has been refused by get_marker
C3_Witness ==
    /\ pc = "Failed"
    /\ err = "MarkerNotRecognizedError"
    /\ Len(buf) > 0
    /\ buf[1] = 0
    /\ index = 0
    /\ NoHandlerRan

\* the handlers that decode a segment with a length field
LengthPrefixed ==
    {"handle_uninteresting_variable_length_header", "handle_app0", "handle_dqt",
     "handle_sof", "handle_dht"}

C4_Step ==
    (/\ pc = "Dispatch"
     /\ marker \in DOMAIN marker_handlers
     /\ marker_handlers[marker] \in LengthPrefixed
     /\ pc' /= "Failed") => index' = index + WordAt(index)

\* C4: a length-prefixed segment decoder that returns leaves the cursor at the offset
\* of the segment's length field plus the declared length.
C4_CursorPastSegment == [][C4_Step]_vars

\* no code of the set is a prefix of another, and each fits its length
PrefixFree(codes) ==
    /\ \A c \in codes : c.code < Pow2(c.len)
    /\ \A c1, c2 \in codes :
        (c1 /= c2 /\ c1.len <= c2.len) => c2.code \div Pow2(c2.len - c1.len) /= c1.code

\* C5: for a description the builder accepts, the canonical codes are prefix-free and
\* lookup on the left-justified pattern of each code, with the don't-care bits below
\* it set any way, returns the symbol of that code and its length; this for codes of
\* 1..8 bits and for codes of 9..16 bits, which go through a low table.
C5_LookupFindsEveryCode ==
    /\ h_pc = "built" =>
        /\ PrefixFree(CanonCodes(h_counts))
        /\ \A c \in CanonCodes(h_counts) : \A d \in DontCare(c.len) :
            lookup(h_table, Pattern(c) + d) =
                [err |-> "none", val |-> h_given[c.k], len |-> c.len]
    /\ h_pc = "looked" =>
        \A c \in CanonCodes(h_counts) :
            (h_query \div Pow2(16 - c.len) = c.code) =>
                h_found = [err |-> "none", val |-> h_given[c.k], len |-> c.len]

\* a code of more than 8 bits has been looked up in a table that also holds shorter codes
C5_Witness ==
    /\ h_pc = "looked"
    /\ h_found.err = "none"
    /\ h_found.len > 8
    /\ h_counts[1] = 1
    /\ SumTo(h_counts, 16) >= 4

\* the codes of a description do not fit the code space: the codes of the lengths up
\* to some length, each taking its share of the 16-bit space, take more than all of it
OverSubscribed(counts) ==
    \E len \in 1..16 :
        LET RECURSIVE used(_)
            used(l) == IF l = 0 THEN 0 ELSE counts[l] * Pow2(16 - l) + used(l - 1)
        IN  used(len) > Pow2(16)

\* C6: a description whose codes exceed the code space is refused with
\* BadHuffmanTreeError: it is neither accepted nor refused in another way.
C6_OverSubscribedIsRefused ==
    (h_pc \in {"built", "failed"} /\ OverSubscribed(h_counts)) =>
        h_table.err = "BadHuffmanTreeError"

\* the descriptions stored by the DHT segments so far can all be built
AllPackable ==
    \A s \in DOMAIN huffman_data : \A w \in 0..1 :
        huffman_data[s][w] /= NoDescription =>
            build_lookups(huffman_data[s][w][1], huffman_data[s][w][2]).err = "none"

Populated(w) == {s \in DOMAIN huffman_data : huffman_data[s][w] /= NoDescription}

C7_Step ==
    (pc = "Dispatch" /\ marker = "SOS" /\ AllPackable) =>
     /\ Len(huffman_dc') = Len(huffman_dc) + Cardinality(Populated(0))
     /\ Len(huffman_ac') = Len(huffman_ac) + Cardinality(Populated(1))
     /\ index' = index
     /\ pc' /= "Failed"

\* C7: handling SOS with packable descriptions builds one table for each populated DC
\* description and one for each populated AC description, and does not fail the parse.
C7_SOSDeliversTables == [][C7_Step]_vars

\* the table built from the DC description that the end-to-end buffer stored
EndToEndTable == build_lookups(huffman_data[0][0][1], huffman_data[0][0][2])

EndToEndParsed ==
    /\ pc = "Done"
    /\ Cardinality({s \in DOMAIN quantization_tables : quantization_tables[s] /= <<>>}) = 1
    /\ Len(components) = 1
    /\ huffman_data[0][0] /= NoDescription
    /\ EndToEndTable.err = "none"

\* C8 as stated: the end-to-end buffer parses to completion with one quantization
\* slot and one component, and the table built from the stored DC description
\* returns, for lookup(0b1000000000000000), the single symbol with length 1.
C8_AsStated ==
    (buf = EndToEnd /\ pc \in {"Done", "Failed"}) =>
        /\ EndToEndParsed
        /\ lookup(EndToEndTable, 32768) = [err |-> "none", val |-> 5, len |-> 1]

\* C8: the end-to-end buffer parses to completion with one quantization slot and one
\* component, and the table built from the stored DC description returns the single
\* symbol with length 1 for every pattern whose first bit is 0, the single 1-bit code
\* being 0; for lookup(0b1000000000000000), which starts with no code, it finds no entry.
C8_EndToEnd ==
    (buf = EndToEnd /\ pc \in {"Done", "Failed"}) =>
        /\ EndToEndParsed
        /\ \A q \in {0, 1, 255, 256, 21845, 32767} :
            lookup(EndToEndTable, q) = [err |-> "none", val |-> 5, len |-> 1]
        /\ \A hi \in 0..127 :
            lookup(EndToEndTable, hi * 256) = [err |-> "none", val |-> 5, len |-> 1]
        /\ lookup(EndToEndTable, 32768).err = "KeyError"

\* the end-to-end buffer has been parsed to its EOI
C8_Witness ==
    /\ buf = EndToEnd
    /\ pc = "Done"
    /\ index = Len(buf)

\* C9: a parse that fails fails with one of the five exceptions of the program.
C9_TypedFailuresOnly == pc = "Failed" => err \in TypedErrors

\* C10: every stored Huffman description has as many values as its counts add up to.
C10_DescriptionsStayWhole ==
    \A s \in DOMAIN huffman_data : \A w \in 0..1 :
        huffman_data[s][w] /= NoDescription =>
            SumTo(huffman_data[s][w][1], 16) = Len(huffman_data[s][w][2])

\* the tables of the DHT segment that starts at `at` and ends before `stop`, as the
\* buffer holds them, up to and including the first whose slot is not less than 4:
\* <<header byte, counts, values>> each; the reading ends where a table is not wholly
\* in the buffer or counts more than 256 symbols
RECURSIVE DhtChain(_, _)
DhtChain(at, stop) ==
    IF ~(at < stop) \/ (\E i \in 0..16 : ~HasByte(at + i)) THEN <<>>
    ELSE
        LET counts == [i \in 1..16 |-> ByteAt(at + i)]
            total == SumTo(counts, 16)
            values == [i \in 1..total |-> ByteAt(at + 16 + i)]
            this == <<ByteAt(at), counts, values>>
        IN  IF total > 256 \/ (total > 0 /\ ~HasByte(at + 16 + total)) THEN <<>>
            ELSE IF ByteAt(at) % 16 >= 4 THEN <<this>>
            ELSE <<this>> \o DhtChain(at + 17 + total, stop)

C11_Step ==
    (pc = "Dispatch" /\ marker = "DHT" /\ HasWord(index)) =>
        LET chain == DhtChain(index + 2, index + WordAt(index))
            refused == {k \in 1..Len(chain) : chain[k][1] % 16 >= 4}
            stored(s, w) == {k \in 1..Len(chain) :
                                /\ chain[k][1] % 16 = s
                                /\ (chain[k][1] \div 16) % 2 = w}
            newest(ks) == CHOOSE k \in ks : \A j \in ks : j <= k
        IN  /\ refused /= {} => (pc' = "Failed" /\ err' = "BadFieldError")
            /\ DOMAIN huffman_data' = 0..3
            /\ \A s \in 0..3 : \A w \in 0..1 :
                huffman_data'[s][w] =
                    IF stored(s, w) = {} THEN huffman_data[s][w]
                    ELSE <<chain[newest(stored(s, w))][2], chain[newest(stored(s, w))][3]>>

\* C11: handle_dht, on a table whose header byte has a low nibble (the slot) that is
\* not less than 4, fails with BadFieldError and stores nothing for that table; a
\* table with a slot in 0..3 is stored as the pair (counts, values) in the DC entry
\* of the slot when bit 4 of the header byte is clear and in the AC entry when it is
\* set, and every other entry is left as it was.
C11_DhtSlots == [][C11_Step]_vars

\* the flags the claim fixes for each SOF variant
C12_Table ==
    ("SOF0" :> {}) @@ ("SOF1" :> {"sequential"}) @@ ("SOF2" :> {"progressive"}) @@
    ("SOF3" :> {"lossless"}) @@
    ("SOF5" :> {"sequential", "differential"}) @@
    ("SOF6" :> {"progressive", "differential"}) @@
    ("SOF7" :> {"lossless", "differential"}) @@
    ("SOF9" :> {"sequential", "arithmetic_code"}) @@
    ("SOF10" :> {"progressive", "arithmetic_code"}) @@
    ("SOF11" :> {"lossless", "arithmetic_code"}) @@
    ("SOF13" :> {"sequential", "differential", "arithmetic_code"}) @@
    ("SOF14" :> {"progressive", "differential", "arithmetic_code"}) @@
    ("SOF15" :> {"lossless", "differential", "arithmetic_code"})

C12_Step ==
    (pc = "Dispatch" /\ marker \in DOMAIN C12_Table /\ pc' /= "Failed") =>
        encoding_type' = [t \in encoding_types |-> t \in C12_Table[marker]]

\* C12: after an SOF segment is decoded, the encoding-type flags that are true are
\* exactly those of the SOF variant dispatched (SOF0 none, SOF1 sequential, SOF2
\* progressive, SOF3 lossless, SOF5/6/7 these plus differential, SOF9 sequential and
\* arithmetic, SOF10 progressive and arithmetic, SOF11 lossless and arithmetic,
\* SOF13/14/15 these plus differential) and every other flag is false.
C12_EncodingFlags == [][C12_Step]_vars

\* the entry count of the DQT segment at the cursor: the declared length less 3,
\* halved under the precision flag
C13_Entries ==
    IF ByteAt(index + 2) \div 16 /= 0 THEN (WordAt(index) - 3) \div 2 ELSE WordAt(index) - 3

C13_Step ==
    (/\ pc = "Dispatch" /\ marker = "DQT"
     /\ HasWord(index) /\ HasByte(index + 2)
     /\ C13_Entries >= 0
     /\ (ByteAt(index + 2) % 16 >= 4 \/ C13_Entries /= 64)) =>
        /\ pc' = "Failed"
        /\ err' = "BadFieldError"
        /\ UNCHANGED dqt_vars

\* C13: handle_dqt, on a slot index not less than 4, or on an entry count that is
\* not a perfect square or is the square of a dimension other than 8, fails with
\* BadFieldError and leaves the four quantization slots and their precision flags
\* as they were.
C13_DqtRefusals == [][C13_Step]_vars

\* the descriptor of component i (from 1) of the SOF segment at the cursor
C14_Descriptor(i) ==
    LET at == index + 8 + 3 * (i - 1)
    IN  [id |-> ByteAt(at), h_factor |-> ByteAt(at + 1) \div 16,
         v_factor |-> ByteAt(at + 1) % 16, quant_tbl_index |-> ByteAt(at + 2)]

\* the SOF segment at the cursor has its 8 header bytes in the buffer and, when the
\* declared length is that of its component count, its components too
C14_InBuffer ==
    /\ index + 8 <= Len(buf)
    /\ WordAt(index) = 8 + 3 * ByteAt(index + 7) => index + WordAt(index) <= Len(buf)

C14_Step ==
    (pc = "Dispatch" /\ marker \in DOMAIN sof_kwargs /\ C14_InBuffer) =>
        LET length == WordAt(index)
            count == ByteAt(index + 7)
            refused ==
                \/ WordAt(index + 3) = 0
                \/ WordAt(index + 5) = 0
                \/ count = 0
                \/ length /= 8 + 3 * count
                \/ \E i \in 1..count : C14_Descriptor(i).quant_tbl_index >= 4
        IN  IF refused
            THEN pc' = "Failed" /\ err' = "BadFieldError"
            ELSE /\ pc' = "InBody"
                 /\ err' = "none"
                 /\ sample_precision' = ByteAt(index + 2)
                 /\ image_height' = WordAt(index + 3)
                 /\ image_width' = WordAt(index + 5)
                 /\ components' = components \o [i \in 1..count |-> C14_Descriptor(i)]

\* C14: handle_sof fails with BadFieldError when the image height is 0, the image
\* width is 0, the component count is 0, the declared length is not 8 + 3 x the
\* component count, or a component's quantization-table index is not less than 4;
\* otherwise it records the sample precision, the height and the width and appends
\* one descriptor {id, h_factor = high nibble, v_factor = low nibble,
\* quant_tbl_index} for each component, in the order of the buffer.
C14_SofFields == [][C14_Step]_vars

\* an SOF2 segment with two components has been decoded
C14_Witness ==
    /\ pc \in {"InBody", "Done"}
    /\ trackers["SOF2"] /= <<>>
    /\ sample_precision = 8
    /\ image_height = 300
    /\ image_width = 200
    /\ components = <<[id |-> 1, h_factor |-> 2, v_factor |-> 2, quant_tbl_index |-> 0],
                      [id |-> 2, h_factor |-> 1, v_factor |-> 2, quant_tbl_index |-> 3]>>

C15_Step ==
    (pc = "Dispatch" /\ marker = "APP0" /\ HasWord(index)) =>
        LET length == WordAt(index)
            body(i) == ByteAt(index + 2 + i)
        IN  IF length < 16 THEN pc' = "Failed" /\ err' = "BadFieldError"
            ELSE (index + 16 <= Len(buf)) =>
                IF <<body(0), body(1), body(2), body(3), body(4)>> /= <<74, 70, 73, 70, 0>>
                THEN pc' = "Failed" /\ err' = "NotJpegFileError"
                ELSE IF length - 16 /= 3 * body(12) * body(13)
                THEN pc' = "Failed" /\ err' = "BadFieldError"
                ELSE /\ pc' = "InBody"
                     /\ err' = "none"
                     /\ is_jfif' = TRUE
                     /\ jfif_version' = <<body(5), body(6)>>
                     /\ density_unit' = body(7)
                     /\ x_density' = body(8) * 256 + body(9)
                     /\ y_density' = body(10) * 256 + body(11)
                     /\ index' = index + length

\* C15: handle_app0 fails with BadFieldError on a declared length below 16, with
\* NotJpegFileError on an identifier that is not the 5 bytes 'JFIF' and NUL, and with
\* BadFieldError on a declared length for which length - 16 is not 3 x thumbnail
\* width x thumbnail height; otherwise it sets is_jfif, jfif_version, density_unit,
\* x_density and y_density from the body and moves the cursor on by exactly the
\* declared length, over the thumbnail bytes.
C15_App0Fields == [][C15_Step]_vars

\* an APP0 segment with a 1 x 1 thumbnail has been decoded and its 3 bytes skipped
C15_Witness ==
    /\ pc \in {"InBody", "Done"}
    /\ trackers["APP0"] /= <<>>
    /\ is_jfif
    /\ jfif_version = <<1, 2>>
    /\ density_unit = 1
    /\ x_density = 300
    /\ y_density = 96
    /\ index = trackers["APP0"][Len(trackers["APP0"])] + 19

\* entry i (from 0) of the DQT segment at the cursor
C16_Entry(i) ==
    IF ByteAt(index + 2) \div 16 /= 0 THEN WordAt(index + 3 + 2 * i) ELSE ByteAt(index + 3 + i)

C16_Step ==
    (pc = "Dispatch" /\ marker = "DQT" /\ pc' /= "Failed") =>
        LET s == ByteAt(index + 2) % 16
            precision == ByteAt(index + 2) \div 16
        IN  /\ s \in 0..3
            /\ DOMAIN quantization_tables'[s] = 0..63
            /\ \A i \in 0..63 :
                /\ quantization_tables'[s][zigzag_natural8[i + 1]] = C16_Entry(i)
                /\ precision = 0 => C16_Entry(i) \in 0..255
            /\ quantization_high_precision'[s] = precision
            /\ \A o \in (0..3) \ {s} :
                /\ quantization_tables'[o] = quantization_tables[o]
                /\ quantization_high_precision'[o] = quantization_high_precision[o]

\* C16: handle_dqt, on an accepted 64-entry segment addressed to slot s, stores entry
\* i of the segment (one byte, in 0..255, under the precision nibble 0; one
\* big-endian 16-bit word under the precision flag) at the natural position
\* zigzag_natural[8][i] of quantization_tables[s], stores the precision flag for
\* slot s, replaces the table the slot held, and leaves the other three slots and
\* their precision flags as they were.
C16_DqtStores == [][C16_Step]_vars

\* slot 0, filled by an 8-bit table, has been filled again by a 16-bit table
C16_Witness ==
    /\ pc = "Done"
    /\ Len(trackers["DQT"]) = 2
    /\ quantization_high_precision[0] = 1
    /\ quantization_tables[0][0] = 1001
    /\ quantization_tables[0][8] = 1003
    /\ quantization_tables[0][63] = 1064

C17_Step ==
    /\ index' >= index
    /\ index > Len(buf) => pc' = "Failed"

\* C17: the cursor never decreases from one tokenizer or decoder step to the next; a
\* parse in which it exceeds the buffer length does not end in success, so that in a
\* parse that ends in success it never does; and on success it stands at the offset
\* just past the EOI marker.
C17_CursorMonotone ==
    /\ [][C17_Step]_vars
    /\ [](pc = "Done" =>
            /\ index >= 2
            /\ index <= Len(buf)
            /\ ByteAt(index - 2) = 255
            /\ markers[ByteAt(index - 1)] = "EOI")

\* a parse that skipped a segment has ended in success at the end of the buffer
C17_Witness ==
    /\ pc = "Done"
    /\ trackers["APP1"] /= <<>>
    /\ trackers["DQT"] /= <<>>
    /\ index = Len(buf)
    /\ index > 20

C18_Step ==
    (pc = "Dispatch" /\ marker = "DQT" /\ pc' /= "Failed") =>
        LET table == quantization_tables'[ByteAt(index + 2) % 16]
        IN  [i \in 0..63 |-> table[zigzag_natural8[i + 1]]] = [i \in 0..63 |-> C16_Entry(i)]

\* C18: the 8x8 zigzag-to-natural table is a bijection on 0..63: the scatter
\* table[zigzag_natural[8][i]] = entry[i] of 64 entries writes every natural position
\* exactly once, and reading the table back at the positions zigzag_natural[8][0..63]
\* gives the entries in their original order.
C18_ZigzagRoundTrip ==
    /\ [](/\ Len(zigzag_natural8) = 64
          /\ \A p \in 0..63 : Cardinality({i \in 1..64 : zigzag_natural8[i] = p}) = 1)
    /\ [][C18_Step]_vars

\* 64 distinct entries have been scattered into slot 0: no position holds the filler
\* and the entries are all there
C18_Witness ==
    /\ trackers["DQT"] /= <<>>
    /\ quantization_high_precision[0] = 0
    /\ DOMAIN quantization_tables[0] = 0..63
    /\ {quantization_tables[0][p] : p \in 0..63} = 1..64
    /\ quantization_tables[0][zigzag_natural8[64]] = 64

\* the codes of the lengths up to 8 take each entry of the 256-entry high table
ExactFill(counts) ==
    LET RECURSIVE used(_)
        used(l) == IF l = 0 THEN 0 ELSE counts[l] * Pow2(8 - l) + used(l - 1)
    IN  used(8) = 256 /\ \A l \in 9..16 : counts[l] = 0

\* C19: build_lookups accepts a description whose codes of the lengths up to 8
\* exactly fill the high table (counts[0] = 2; counts[0] = 1 and counts[1] = 2): the
\* table is built, every one of its 256 entries holds a code, and none is an escape
\* to a low table.
C19_ExactFillAccepted ==
    (h_pc \in {"built", "failed"} /\ ExactFill(h_counts)) =>
        /\ h_table.err = "none"
        /\ DOMAIN h_table.high = 0..255
        /\ \A b \in 0..255 : h_table.high[b][2] >= 1
        /\ h_table.lows = <<>>

\* what is left of the parse: the bytes from the cursor to the end of the buffer,
\* and within one turn of the loop the steps left in it
C20_Left ==
    3 * (IF index < Len(buf) THEN Len(buf) - index ELSE 0) +
    (CASE pc \in {"Done", "Failed"} -> 0
       [] pc \in {"Start", "InBody"} -> 1
       [] pc = "Dispatch" -> 2
       [] pc = "First" -> 3)

\* a parse that has not ended can take its next step: the tokenizer, the test of the
\* first marker, or the handler the marker is registered with (handle_dqt and
\* handle_sos, whose actions have no condition but it, by their registration)
C20_NotStuck ==
    /\ pc \in {"Start", "InBody"} => ENABLED GetMarker
    /\ pc = "First" => ENABLED CheckSOI
    /\ pc = "Dispatch" =>
        \/ ENABLED HandleUnregistered
        \/ ENABLED HandleSOI
        \/ ENABLED HandleEOI
        \/ ENABLED HandleSkip
        \/ ENABLED HandleAPP0
        \/ Registered("handle_dqt")
        \/ ENABLED HandleSOF
        \/ ENABLED HandleDHT
        \/ Registered("handle_sos")

C20_Step ==
    /\ C20_Left' < C20_Left
    /\ (pc \in {"Start", "InBody"} /\ pc' /= "Failed") =>
            (index' = index + 2 /\ index' <= Len(buf))
    /\ pc \in {"First", "Dispatch"} => index' >= index
    /\ (pc = "Dispatch" /\ marker = "DHT" /\ pc' /= "Failed") =>
            index' >= index + 2 + 17 * Len(DhtChain(index + 2, index + WordAt(index)))

\* C20: the parse terminates, in success or in a failure: a parse that has not ended
\* takes a step, and every step takes from what is left of the parse, which is never
\* less than nothing; a turn of the dispatch loop fails or moves the cursor on by at
\* least 2 (get_marker by exactly 2, within the buffer, and the handler by no less
\* than 0, a skipped segment of declared length 0 or 1 included), and a DHT segment
\* moves it on by at least 17 for each of its tables.
C20_Terminates ==
    /\ [](C20_Left >= 0)
    /\ [](C20_NotStuck)
    /\ [][C20_Step]_vars

\* a parse that skipped a segment of declared length 0 has ended
C20_Witness ==
    /\ pc = "Failed"
    /\ Len(trackers["APP15"]) = 1
    /\ index = trackers["APP15"][1]
    /\ HasWord(index)
    /\ WordAt(index) = 0

\* the offsets of the length fields of the SOF segments handled so far
C21_SofOffsets == UNION {{trackers[m][k] : k \in 1..Len(trackers[m])} : m \in DOMAIN sof_kwargs}

\* the components of the SOF segment whose length field is at offset `at`, as the
\* buffer holds them
C21_ComponentsAt(at) ==
    [i \in 1..ByteAt(at + 7) |->
        LET c == at + 8 + 3 * (i - 1)
        IN  [id |-> ByteAt(c), h_factor |-> ByteAt(c + 1) \div 16,
             v_factor |-> ByteAt(c + 1) % 16, quant_tbl_index |-> ByteAt(c + 2)]]

\* C21: after a successful parse of a buffer with at least one SOF segment, the
\* component list holds exactly the components of the SOF segment decoded last, so
\* that its length is that segment's component count, also when the buffer holds
\* several SOF segments.
C21_ComponentsOfLastSof ==
    (pc = "Done" /\ C21_SofOffsets /= {}) =>
        LET last == CHOOSE at \in C21_SofOffsets : \A o \in C21_SofOffsets : o <= at
        IN  /\ Len(components) = ByteAt(last + 7)
            /\ components = C21_ComponentsAt(last)

====
